---- MODULE Spec2Model ----
(***************************************************************************)
(* Model of the asynchronous job queue of traffic_api (src/jobs.py):       *)
(* AsyncJobQueue with its facade (start, stop, submit, get, cancel,        *)
(* remove), the job workers (_worker_loop), the fan-out controller         *)
(* (_process_job) and the per-location tasks (process_location).           *)
(*                                                                         *)
(* The program runs on one asyncio event loop, so every action below is    *)
(* one run of a coroutine from the point where it is resumed to the next   *)
(* point where it suspends (an await that does not complete at once).      *)
(***************************************************************************)
EXTENDS Integers, Sequences, FiniteSets, TLC

\* ---------------------------------------------------------------- bounds
MaxJobs == 2          \* number of submit calls explored
MaxLocs == 2          \* longest payload location list explored
MaxLocsOneJob == 4    \* the same when a single job is submitted (SpecOneJob)
MaxLocsStop == 2      \* the same when a single job meets stop() (SpecStopOneJob)
MaxWorkers == 2       \* largest max_workers explored
MaxConcurrency == 2   \* largest per_job_concurrency explored
MaxPollers == 2       \* concurrent requests to the status endpoint explored
MaxLocsPoll == 2      \* longest location list when the endpoint is studied (SpecPoll)
MaxOver == 1          \* locations beyond the cap of 20 in a payload (SpecCap)

\* ------------------------------------------------------- program constants
LocationCap == 20     \* jobs.py:138  [:20]
ErrorCap == 3         \* jobs.py:218  error_messages[:3]

\* JobStatusEnum, jobs.py:15-20
CANCELED == "canceled"
PENDING == "pending"
RUNNING == "running"
FAILED == "failed"
DONE == "done"
JobStatusEnum == {CANCELED, PENDING, RUNNING, FAILED, DONE}
Terminal == {DONE, FAILED, CANCELED}

VARIABLES
  max_workers,          \* self.max_workers
  per_job_concurrency,  \* self.per_job_concurrency
  jobs,                 \* every job record created so far, by id (1..Len)
  store,                \* the keys of self._jobs (ids not removed)
  queue,                \* self._queue, a FIFO of job ids
  running,              \* self._running
  lifecycle,            \* "new", "started", "stopping", "stopped"
  workers,              \* self._workers: position of each _worker_loop
  tasks,                \* per job: the location tasks created for it
  results,              \* per job: the local list results of _process_job
  ended,                \* per job: how its _process_job call ended
  canceledAt,           \* per job: status the job had when cancel took effect
  lastCall,             \* the facade or endpoint call that has just ended, if any
  polls,                \* main.py get_job: position of each request in flight
  traffic_log           \* per job id: the TrafficLog rows committed for it

vars == <<max_workers, per_job_concurrency, jobs, store, queue, running,
          lifecycle, workers, tasks, results, ended, canceledAt, lastCall,
          polls, traffic_log>>

JobIds == 1..MaxJobs
WorkerIds == 1..MaxWorkers
PollerIds == 1..MaxPollers

Min(a, b) == IF a <= b THEN a ELSE b

NoError == [kind |-> "none", msgs |-> <<>>]

\* No facade call has just returned: the last step was a worker's or a task's.
NoCall == [op |-> "none", id |-> 0, was |-> "none", out |-> "none"]

\* Mutant of NewJobRecord: the record is born Running, as if submit had
\* handed the job to a worker itself.
NewJobRecord_Running(payload) ==
  [status |-> RUNNING, nloc |-> payload.nloc, bad |-> payload.bad,
   count |-> 0, locs |-> <<>>, error |-> NoError,
   completed |-> 0, failure |-> 0, updated_at |-> 0,
   cancel_requested |-> FALSE, logged_to_db |-> FALSE]

\* submit, jobs.py:75-86: the record of a freshly submitted job.  The payload
\* is kept as the length of its location list (nloc) and whether its
\* "locations" entry is a sequence at all (bad = it is not).
NewJobRecord(payload) ==
  [status |-> PENDING, nloc |-> payload.nloc, bad |-> payload.bad,
   count |-> 0, locs |-> <<>>, error |-> NoError,
   completed |-> 0, failure |-> 0, updated_at |-> 0,
   cancel_requested |-> FALSE, logged_to_db |-> FALSE]

\* A request to the status endpoint that is not in flight.
Idle == [pc |-> "idle", job |-> 0, rows |-> <<>>]

\* Mutant of Locations: the location list is not truncated.
Locations_NoCap(job) == job.nloc

\* jobs.py:138: locations = job["payload"].get("locations", [])[:20]
Locations(job) == Min(job.nloc, LocationCap)

Init ==
  /\ max_workers \in 1..MaxWorkers
  /\ per_job_concurrency \in 1..MaxConcurrency
  /\ jobs = <<>>
  /\ store = {}
  /\ queue = <<>>
  /\ running = TRUE
  /\ lifecycle = "new"
  /\ workers = [w \in WorkerIds |-> [pc |-> "off", job |-> 0, pos |-> 0, cancel |-> FALSE]]
  /\ tasks = <<>>
  /\ results = <<>>
  /\ ended = <<>>
  /\ canceledAt = <<>>
  /\ lastCall = NoCall
  /\ polls = [p \in PollerIds |-> Idle]
  /\ traffic_log = [j \in JobIds |-> <<>>]

\* ------------------------------------------------------------ helpers

\* Replace entry j of the per-job sequence f.
Put(f, j, v) == [f EXCEPT ![j] = v]

\* Tasks of one job that hold a slot of its asyncio.Semaphore (jobs.py:143):
\* inside the "async with semaphore" block, or handed the slot by release().
Holders(ts) == {i \in 1..Len(ts) : ts[i].pc \in {"woken", "exec", "cancelling"}}

\* Tasks of one job that are inside self._run_single_location (jobs.py:151).
InExecutor(ts) == {i \in 1..Len(ts) : ts[i].pc = "exec"}

Waiters(ts) == {i \in 1..Len(ts) : ts[i].pc = "wait"}

\* Mutant of Locked: the gate admits one task too many.
Locked_OffByOne(ts) == Cardinality(Holders(ts)) > per_job_concurrency

\* asyncio.Semaphore.locked() for the gate of a job whose tasks are ts.
\* release() hands a freed slot to the first waiter at once, so there is a
\* waiter only while all slots are held.
Locked(ts) == Cardinality(Holders(ts)) >= per_job_concurrency

\* Leaving "async with semaphore" (jobs.py:149): release() wakes the waiter
\* that has waited longest.  Tasks start in index order, so that is the
\* waiting task of lowest index.
Release(ts) ==
  IF Waiters(ts) = {} THEN ts
  ELSE LET i == CHOOSE k \in Waiters(ts) : \A m \in Waiters(ts) : k <= m
       IN  [ts EXCEPT ![i].pc = "woken"]

\* time.time() written to job["updated_at"]: a version stamp per record.
Touch(job) == [job EXCEPT !.updated_at = @ + 1]

\* ------------------------------------------------------------- facade

\* What a lookup of job_id in self._jobs finds: the status of its record,
\* or "absent" (jobs.py:93, 100: self._jobs.get(job_id) is None).
Found(job_id) == IF job_id \in store THEN jobs[job_id].status ELSE "absent"

\* start, jobs.py:52-57
Start ==
  /\ lifecycle = "new"
  /\ lifecycle' = "started"
  /\ workers' = [w \in WorkerIds |->
                   IF w <= max_workers THEN [workers[w] EXCEPT !.pc = "get"]
                   ELSE workers[w]]
  /\ lastCall' = NoCall
  /\ UNCHANGED <<polls, traffic_log, max_workers, per_job_concurrency, jobs, store, queue, running,
                 tasks, results, ended, canceledAt>>

\* submit, jobs.py:67-89.  os.urandom(8).hex() is a fresh id: the next
\* unused index.
Submit(payload) ==
  /\ Len(jobs) < MaxJobs
  /\ LET job_id == Len(jobs) + 1 IN
       /\ jobs' = Append(jobs, NewJobRecord(payload))
       /\ store' = store \cup {job_id}
       /\ queue' = Append(queue, job_id)
  /\ tasks' = Append(tasks, <<>>)
  /\ results' = Append(results, <<>>)
  /\ ended' = Append(ended, "no")
  /\ canceledAt' = Append(canceledAt, "never")
  /\ lastCall' = [op |-> "submit", id |-> Len(jobs) + 1, was |-> Found(Len(jobs) + 1),
                out |-> "returned"]
  /\ UNCHANGED <<polls, traffic_log, max_workers, per_job_concurrency, running, lifecycle, workers>>

\* Mutant of Remove: a job that has not finished is kept in the store.
Remove_OnlyFinished(job_id) ==
  /\ store' = IF Found(job_id) \in {PENDING, RUNNING} THEN store ELSE store \ {job_id}
  /\ lastCall' = [op |-> "remove", id |-> job_id, was |-> Found(job_id),
                out |-> "returned"]
  /\ UNCHANGED <<polls, traffic_log, max_workers, per_job_concurrency, jobs, queue, running,
                 lifecycle, workers, tasks, results, ended, canceledAt>>

\* remove, jobs.py:95-97: self._jobs.pop(job_id, None).  The record itself
\* lives on for whoever still holds a reference to it (the worker, the
\* location tasks).
Remove(job_id) ==
  /\ store' = store \ {job_id}
  /\ lastCall' = [op |-> "remove", id |-> job_id, was |-> Found(job_id),
                out |-> "returned"]
  /\ UNCHANGED <<polls, traffic_log, max_workers, per_job_concurrency, jobs, queue, running,
                 lifecycle, workers, tasks, results, ended, canceledAt>>

\* Mutant of CancelRecord: the terminal check is missing.
CancelRecord_NoTerminalCheck(job) ==
  Touch([job EXCEPT !.cancel_requested = TRUE, !.status = CANCELED])

\* Mutant of CancelRecord: cancel only raises the flag and leaves the status
\* to the controller.
CancelRecord_FlagOnly(job) ==
  IF job.status \in {DONE, FAILED, CANCELED} THEN job
  ELSE Touch([job EXCEPT !.cancel_requested = TRUE])

\* cancel, jobs.py:104-114, on the record found in the store.
CancelRecord(job) ==
  IF job.status \in {DONE, FAILED, CANCELED} THEN job
  ELSE Touch([job EXCEPT !.cancel_requested = TRUE, !.status = CANCELED])

\* Mutant of Cancel: the record is found through an old reference although
\* its id has been removed from the store.
Cancel_NoLookup(job_id) ==
  /\ IF job_id \in 1..Len(jobs)
       THEN /\ jobs' = Put(jobs, job_id, CancelRecord(jobs[job_id]))
            /\ canceledAt' =
                 IF jobs'[job_id].cancel_requested /\ ~jobs[job_id].cancel_requested
                   THEN Put(canceledAt, job_id, jobs[job_id].status)
                   ELSE canceledAt
       ELSE UNCHANGED <<jobs, canceledAt>>
  /\ lastCall' = [op |-> "cancel", id |-> job_id, was |-> Found(job_id),
                out |-> "returned"]
  /\ UNCHANGED <<polls, traffic_log, max_workers, per_job_concurrency, store, queue, running,
                 lifecycle, workers, tasks, results, ended>>

\* cancel, jobs.py:99-114
Cancel(job_id) ==
  /\ IF job_id \in store
       THEN /\ jobs' = Put(jobs, job_id, CancelRecord(jobs[job_id]))
            /\ canceledAt' =
                 IF jobs'[job_id].cancel_requested /\ ~jobs[job_id].cancel_requested
                   THEN Put(canceledAt, job_id, jobs[job_id].status)
                   ELSE canceledAt
       ELSE UNCHANGED <<jobs, canceledAt>>
  /\ lastCall' = [op |-> "cancel", id |-> job_id, was |-> Found(job_id),
                out |-> "returned"]
  /\ UNCHANGED <<polls, traffic_log, max_workers, per_job_concurrency, store, queue, running,
                 lifecycle, workers, tasks, results, ended>>

\* -------------------------------------------------------- job workers

\* The worker is back at the head of "while self._running" (jobs.py:118):
\* it waits on the queue again, or leaves the loop.
LoopAgain ==
  [pc |-> IF running THEN "get" ELSE "dead", job |-> 0, pos |-> 0, cancel |-> FALSE]

\* Mutant of AfterError: the exception ends the worker task.
AfterError_Dies == [pc |-> "dead", job |-> 0, pos |-> 0, cancel |-> FALSE]

\* _worker_loop, jobs.py:125-127: an Exception that escapes _process_job is
\* logged and the loop continues.
AfterError == LoopAgain

\* Mutant of Dequeue: the worker takes the id submitted last.
Dequeue_Newest(w) ==
  /\ workers[w].pc = "get"
  /\ queue # <<>>
  /\ workers' = [workers EXCEPT ![w].pc = "got", ![w].job = queue[Len(queue)]]
  /\ queue' = SubSeq(queue, 1, Len(queue) - 1)
  /\ lastCall' = NoCall
  /\ UNCHANGED <<polls, traffic_log, max_workers, per_job_concurrency, jobs, store, running,
                 lifecycle, tasks, results, ended, canceledAt>>

\* Mutant of Dequeue: the id is read from the queue and left in it.
Dequeue_Peek(w) ==
  /\ workers[w].pc = "get"
  /\ queue # <<>>
  /\ workers' = [workers EXCEPT ![w].pc = "got", ![w].job = Head(queue)]
  /\ queue' = queue
  /\ lastCall' = NoCall
  /\ UNCHANGED <<polls, traffic_log, max_workers, per_job_concurrency, jobs, store, running,
                 lifecycle, tasks, results, ended, canceledAt>>

\* _worker_loop, jobs.py:120: queue.get() hands the worker the oldest id.
Dequeue(w) ==
  /\ workers[w].pc = "get"
  /\ queue # <<>>
  /\ workers' = [workers EXCEPT ![w].pc = "got", ![w].job = Head(queue)]
  /\ queue' = Tail(queue)
  /\ lastCall' = NoCall
  /\ UNCHANGED <<polls, traffic_log, max_workers, per_job_concurrency, jobs, store, running,
                 lifecycle, tasks, results, ended, canceledAt>>

\* _worker_loop, jobs.py:120: the 1-second timeout of wait_for fires while
\* queue.get() has delivered nothing.  wait_for cancels the pending get,
\* which takes nothing from the queue, and raises TimeoutError.
Timeout(w) ==
  /\ workers[w].pc = "get"
  /\ workers' = [workers EXCEPT ![w].pc = "timedout"]
  /\ lastCall' = NoCall
  /\ UNCHANGED <<polls, traffic_log, max_workers, per_job_concurrency, jobs, store, queue, running,
                 lifecycle, tasks, results, ended, canceledAt>>

\* _worker_loop, jobs.py:123-124: except asyncio.TimeoutError: continue
Retry(w) ==
  /\ workers[w].pc = "timedout"
  /\ workers' = [workers EXCEPT ![w] = LoopAgain]
  /\ lastCall' = NoCall
  /\ UNCHANGED <<polls, traffic_log, max_workers, per_job_concurrency, jobs, store, queue, running,
                 lifecycle, tasks, results, ended, canceledAt>>

RECURSIVE Pick(_, _, _)
\* The indices i..Len(res) whose entry of res is v, in index order.
Pick(res, v, i) ==
  IF i > Len(res) THEN <<>>
  ELSE IF res[i] = v THEN <<i>> \o Pick(res, v, i + 1)
  ELSE Pick(res, v, i + 1)

FirstN(s, n) == SubSeq(s, 1, Min(Len(s), n))

\* Mutant of Finalize: the error lists the message of every location.
Finalize_AllMessages(job, res, n) ==
  LET locs == Pick(res, "ok", 1)
      withResult == [job EXCEPT !.locs = locs, !.count = Len(locs)]
  IN  IF n > 0 /\ job.failure = n
        THEN [withResult EXCEPT
                !.error = [kind |-> "all_failed", msgs |-> Pick(res, "err", 1)],
                !.status = FAILED]
        ELSE [withResult EXCEPT !.status = DONE]

\* Mutant of Finalize: a job that ends Done with some failed locations
\* carries their messages as its error.
Finalize_ErrorOnPartial(job, res, n) ==
  LET locs == Pick(res, "ok", 1)
      withResult == [job EXCEPT !.locs = locs, !.count = Len(locs)]
  IN  IF n > 0 /\ job.failure = n
        THEN [withResult EXCEPT
                !.error = [kind |-> "all_failed",
                           msgs |-> FirstN(Pick(res, "err", 1), ErrorCap)],
                !.status = FAILED]
        ELSE [withResult EXCEPT
                !.error = IF job.failure > 0
                            THEN [kind |-> "some_failed",
                                  msgs |-> FirstN(Pick(res, "err", 1), ErrorCap)]
                            ELSE job.error,
                !.status = DONE]

\* Mutant of Finalize: result.count is the number of locations processed,
\* failed ones included.
Finalize_CountAll(job, res, n) ==
  LET locs == Pick(res, "ok", 1)
      withResult == [job EXCEPT !.locs = locs, !.count = n]
  IN  IF n > 0 /\ job.failure = n
        THEN [withResult EXCEPT
                !.error = [kind |-> "all_failed",
                           msgs |-> FirstN(Pick(res, "err", 1), ErrorCap)],
                !.status = FAILED]
        ELSE [withResult EXCEPT !.status = DONE]

\* Mutant of Finalize: one failed location fails the job.
Finalize_AnyFailure(job, res, n) ==
  LET locs == Pick(res, "ok", 1)
      withResult == [job EXCEPT !.locs = locs, !.count = Len(locs)]
  IN  IF n > 0 /\ job.failure >= 1
        THEN [withResult EXCEPT
                !.error = [kind |-> "all_failed",
                           msgs |-> FirstN(Pick(res, "err", 1), ErrorCap)],
                !.status = FAILED]
        ELSE [withResult EXCEPT !.status = DONE]

\* Mutant of Finalize: the all-failed test forgets that there must be a
\* location.
Finalize_NoEmptyCheck(job, res, n) ==
  LET locs == Pick(res, "ok", 1)
      withResult == [job EXCEPT !.locs = locs, !.count = Len(locs)]
  IN  IF job.failure = n
        THEN [withResult EXCEPT
                !.error = [kind |-> "all_failed",
                           msgs |-> FirstN(Pick(res, "err", 1), ErrorCap)],
                !.status = FAILED]
        ELSE [withResult EXCEPT !.status = DONE]

\* _process_job, jobs.py:204-222: the terminal decision, taken when
\* cancel_requested is not set.  res is the local list results, n the
\* number of locations.
Finalize(job, res, n) ==
  LET locs == Pick(res, "ok", 1)
      withResult == [job EXCEPT !.locs = locs, !.count = Len(locs)]
  IN  IF n > 0 /\ job.failure = n
        THEN [withResult EXCEPT
                !.error = [kind |-> "all_failed",
                           msgs |-> FirstN(Pick(res, "err", 1), ErrorCap)],
                !.status = FAILED]
        ELSE [withResult EXCEPT !.status = DONE]

\* Mutant of AfterCollect: a canceled job keeps its status but still gets
\* the results gathered so far.
AfterCollect_KeepsResults(job, res, n) ==
  Touch(IF ~job.cancel_requested THEN Finalize(job, res, n)
        ELSE [job EXCEPT !.locs = Pick(res, "ok", 1), !.count = Len(Pick(res, "ok", 1))])

\* Mutant of AfterCollect: the terminal decision is taken without looking at
\* cancel_requested.
AfterCollect_NoCancelCheck(job, res, n) == Touch(Finalize(job, res, n))

\* _process_job, jobs.py:204-231: what follows the collect loop.
AfterCollect(job, res, n) ==
  Touch(IF ~job.cancel_requested THEN Finalize(job, res, n) ELSE job)

\* _process_job, jobs.py:135-136: the worker claims the job.
Claim(job) == Touch([job EXCEPT !.status = RUNNING])

\* Mutant of NewTasks: the task-creation loop does not look at
\* cancel_requested.
NewTasks_NoCancelCheck(job, n) == [i \in 1..n |-> [pc |-> "new", res |-> "none"]]

\* _process_job, jobs.py:161-166: one task per location, none once
\* cancel_requested is seen (it cannot change during the loop).
NewTasks(job, n) ==
  IF job.cancel_requested THEN <<>>
  ELSE [i \in 1..n |-> [pc |-> "new", res |-> "none"]]

\* Mutant of ProcessJob: the worker processes the record of the id it
\* dequeued without looking the id up in the store.
ProcessJob_NoLookup(w) ==
  /\ workers[w].pc = "got"
  /\ LET j == workers[w].job IN
       IF jobs[j].bad THEN
         \* jobs.py:138 raises outside the try block; _worker_loop logs it
         /\ jobs' = Put(jobs, j, Claim(jobs[j]))
         /\ ended' = Put(ended, j, "raised")
         /\ workers' = [workers EXCEPT ![w] = AfterError]
         /\ UNCHANGED <<tasks, results>>
       ELSE
         LET job == Claim(jobs[j])
             n == Locations(job)
             res == [i \in 1..n |-> "none"]
             ts == NewTasks(job, n)
         IN  /\ tasks' = Put(tasks, j, ts)
             /\ results' = Put(results, j, res)
             /\ IF ts = <<>>
                  THEN /\ jobs' = Put(jobs, j, AfterCollect(job, res, n))
                       /\ ended' = Put(ended, j, "returned")
                       /\ workers' = [workers EXCEPT ![w] = LoopAgain]
                  ELSE /\ jobs' = Put(jobs, j, job)
                       /\ ended' = ended
                       /\ workers' = [workers EXCEPT ![w].pc = "await", ![w].pos = 1,
                                                     ![w].cancel = FALSE]
  /\ lastCall' = NoCall
  /\ UNCHANGED <<polls, traffic_log, max_workers, per_job_concurrency, store, queue, running,
                 lifecycle, canceledAt>>

\* _process_job, jobs.py:129-174, from the call to its first suspension:
\* the lookup, the claim, the creation of the location tasks.  With no task
\* to wait for (no location, or cancel_requested already set) the call runs
\* to its end in the same step.
ProcessJob(w) ==
  /\ workers[w].pc = "got"
  /\ LET j == workers[w].job IN
       IF j \notin store THEN
         /\ ended' = Put(ended, j, "absent")
         /\ workers' = [workers EXCEPT ![w] = LoopAgain]
         /\ UNCHANGED <<jobs, tasks, results>>
       ELSE IF jobs[j].bad THEN
         \* jobs.py:138 raises outside the try block; _worker_loop logs it
         /\ jobs' = Put(jobs, j, Claim(jobs[j]))
         /\ ended' = Put(ended, j, "raised")
         /\ workers' = [workers EXCEPT ![w] = AfterError]
         /\ UNCHANGED <<tasks, results>>
       ELSE
         LET job == Claim(jobs[j])
             n == Locations(job)
             res == [i \in 1..n |-> "none"]
             ts == NewTasks(job, n)
         IN  /\ tasks' = Put(tasks, j, ts)
             /\ results' = Put(results, j, res)
             /\ IF ts = <<>>
                  THEN /\ jobs' = Put(jobs, j, AfterCollect(job, res, n))
                       /\ ended' = Put(ended, j, "returned")
                       /\ workers' = [workers EXCEPT ![w] = LoopAgain]
                  ELSE /\ jobs' = Put(jobs, j, job)
                       /\ ended' = ended
                       /\ workers' = [workers EXCEPT ![w].pc = "await", ![w].pos = 1,
                                                     ![w].cancel = FALSE]
  /\ lastCall' = NoCall
  /\ UNCHANGED <<polls, traffic_log, max_workers, per_job_concurrency, store, queue, running,
                 lifecycle, canceledAt>>

\* Mutant of Counted: one increment for each time the worker resumes, however
\* many finished tasks it passes.
Counted_PerResume(job, k) == [job EXCEPT !.completed = @ + 1]

\* _process_job, jobs.py:201-202: finally: job["completed"] += 1, once for
\* each of the k tasks the collect loop has passed.
Counted(job, k) == [job EXCEPT !.completed = @ + k]

RECURSIVE DoneRun(_, _)
\* How many tasks from position p on are already done, up to the first
\* that is not: "await task" on a done task does not suspend.
DoneRun(ts, p) ==
  IF p > Len(ts) \/ ts[p].pc # "done" THEN 0 ELSE 1 + DoneRun(ts, p + 1)

\* _process_job, jobs.py:169-231: the worker resumes from "await task" and
\* runs to its next suspension or to the end of the call.
Collect(w) ==
  /\ workers[w].pc = "await"
  /\ ~workers[w].cancel
  /\ LET j == workers[w].job
         p == workers[w].pos
         ts == tasks[j]
         job == jobs[j]
     IN  /\ ts[p].pc = "done"
         /\ LET k == IF job.cancel_requested THEN 1 ELSE DoneRun(ts, p)
                \* jobs.py:175-197: a truthy result goes to its slot
                res == [i \in 1..Len(results[j]) |->
                          IF i >= p /\ i < p + k /\ ts[i].res # "none"
                            THEN ts[i].res ELSE results[j][i]]
                \* jobs.py:202
                counted == Counted(job, k)
                over == job.cancel_requested \/ p + k > Len(ts)
            IN  /\ results' = Put(results, j, res)
                /\ IF over
                     THEN /\ jobs' = Put(jobs, j, AfterCollect(counted, res, Len(res)))
                          /\ ended' = Put(ended, j, "returned")
                          /\ workers' = [workers EXCEPT ![w] = LoopAgain]
                     ELSE /\ jobs' = Put(jobs, j, counted)
                          /\ ended' = ended
                          /\ workers' = [workers EXCEPT ![w].pos = p + k]
  /\ lastCall' = NoCall
  /\ UNCHANGED <<polls, traffic_log, max_workers, per_job_concurrency, store, queue, running,
                 lifecycle, tasks, canceledAt>>

\* ------------------------------------------------------ location tasks

\* process_location, jobs.py:145-151, from the task's first run to its
\* first suspension.  Tasks created in one step first run in creation order.
TaskStart(j, i) ==
  /\ j \in 1..Len(tasks) /\ i \in 1..Len(tasks[j])
  /\ tasks[j][i].pc = "new"
  /\ \A k \in 1..(i - 1) : tasks[j][k].pc # "new"
  /\ tasks' = Put(tasks, j,
       [tasks[j] EXCEPT ![i].pc =
          IF jobs[j].cancel_requested THEN "done"
          ELSE IF ~Locked(tasks[j]) THEN "exec" ELSE "wait"])
  /\ lastCall' = NoCall
  /\ UNCHANGED <<polls, traffic_log, max_workers, per_job_concurrency, jobs, store, queue, running,
                 lifecycle, workers, results, ended, canceledAt>>

\* process_location, jobs.py:149-151: a task that waited for the gate has
\* been given a slot and calls the executor.
TaskWake(j, i) ==
  /\ j \in 1..Len(tasks) /\ i \in 1..Len(tasks[j])
  /\ tasks[j][i].pc = "woken"
  /\ tasks' = Put(tasks, j, [tasks[j] EXCEPT ![i].pc = "exec"])
  /\ lastCall' = NoCall
  /\ UNCHANGED <<polls, traffic_log, max_workers, per_job_concurrency, jobs, store, queue, running,
                 lifecycle, workers, results, ended, canceledAt>>

\* process_location, jobs.py:151: worker_callable returns the analysis.
TaskReturn(j, i) ==
  /\ j \in 1..Len(tasks) /\ i \in 1..Len(tasks[j])
  /\ tasks[j][i].pc = "exec"
  /\ tasks' = Put(tasks, j,
       Release([tasks[j] EXCEPT ![i] = [pc |-> "done", res |-> "ok"]]))
  /\ lastCall' = NoCall
  /\ UNCHANGED <<polls, traffic_log, max_workers, per_job_concurrency, jobs, store, queue, running,
                 lifecycle, workers, results, ended, canceledAt>>

\* Mutant of Failed: the increment is written from a value read before
\* other tasks counted theirs.
Failed_LostUpdate(job) == [job EXCEPT !.failure = 1]

\* process_location, jobs.py:154-158
Failed(job) == [job EXCEPT !.failure = @ + 1]

\* Mutant of TaskRaise: the failure of one location gives up the locations
\* of the job that have not called the executor yet.
TaskRaise_AbortsSiblings(j, i) ==
  /\ j \in 1..Len(tasks) /\ i \in 1..Len(tasks[j])
  /\ tasks[j][i].pc = "exec"
  /\ tasks' = Put(tasks, j,
       [k \in 1..Len(tasks[j]) |->
          IF k = i THEN [pc |-> "done", res |-> "err"]
          ELSE IF tasks[j][k].pc \in {"new", "wait"} THEN [pc |-> "done", res |-> "none"]
          ELSE tasks[j][k]])
  /\ jobs' = Put(jobs, j, Failed(jobs[j]))
  /\ lastCall' = NoCall
  /\ UNCHANGED <<polls, traffic_log, max_workers, per_job_concurrency, store, queue, running,
                 lifecycle, workers, results, ended, canceledAt>>

\* process_location, jobs.py:151-158: worker_callable raises.
TaskRaise(j, i) ==
  /\ j \in 1..Len(tasks) /\ i \in 1..Len(tasks[j])
  /\ tasks[j][i].pc = "exec"
  /\ tasks' = Put(tasks, j,
       Release([tasks[j] EXCEPT ![i] = [pc |-> "done", res |-> "err"]]))
  /\ jobs' = Put(jobs, j, Failed(jobs[j]))
  /\ lastCall' = NoCall
  /\ UNCHANGED <<polls, traffic_log, max_workers, per_job_concurrency, store, queue, running,
                 lifecycle, workers, results, ended, canceledAt>>

\* ---------------------------------------------------------------- stop

\* Task.cancel() reaching the location task a cancelled worker awaits: a
\* task that never ran or still waits for the gate is cancelled outright,
\* one that holds a slot gives it back when it next runs.
CancelTask(t) ==
  IF t.pc \in {"new", "wait"} THEN [t EXCEPT !.pc = "cancelled"]
  ELSE IF t.pc \in {"woken", "exec"} THEN [t EXCEPT !.pc = "cancelling"]
  ELSE t

Awaited(j, i) ==
  \E w \in WorkerIds : workers[w].pc = "await" /\ workers[w].job = j /\ workers[w].pos = i

\* stop, jobs.py:61-63: clear _running and cancel every worker task.  The
\* cancellation of a worker that awaits a location task is passed on to it.
StopBegin ==
  /\ lifecycle = "started"
  /\ lifecycle' = "stopping"
  /\ running' = FALSE
  /\ workers' = [w \in WorkerIds |->
                   IF workers[w].pc \in {"get", "got", "await"}
                     THEN [workers[w] EXCEPT !.cancel = TRUE] ELSE workers[w]]
  /\ tasks' = [j \in 1..Len(tasks) |->
                 [i \in 1..Len(tasks[j]) |->
                    IF Awaited(j, i) THEN CancelTask(tasks[j][i]) ELSE tasks[j][i]]]
  /\ lastCall' = NoCall
  /\ UNCHANGED <<polls, traffic_log, max_workers, per_job_concurrency, jobs, store, queue, results,
                 ended, canceledAt>>

\* process_location, jobs.py:149-151: CancelledError is no Exception, so it
\* leaves the "async with" block, which releases the slot.
TaskCancelled(j, i) ==
  /\ j \in 1..Len(tasks) /\ i \in 1..Len(tasks[j])
  /\ tasks[j][i].pc = "cancelling"
  /\ tasks' = Put(tasks, j, Release([tasks[j] EXCEPT ![i].pc = "cancelled"]))
  /\ lastCall' = NoCall
  /\ UNCHANGED <<polls, traffic_log, max_workers, per_job_concurrency, jobs, store, queue, running,
                 lifecycle, workers, results, ended, canceledAt>>

\* _process_job, jobs.py:201-202 and 230-231: the two finally blocks that
\* CancelledError passes on its way out of the call.
Unwind(job) == Touch([job EXCEPT !.completed = @ + 1])

\* _worker_loop, jobs.py:119-127: CancelledError is raised where the worker
\* is suspended; neither except clause catches it and the task ends.  A
\* worker whose queue.get() has already delivered an id keeps the id and
\* goes on (ProcessJob).  A worker suspended on a location task is resumed
\* by that task's end, which comes after the first run of every task
\* created with it.
WorkerCancelled(w) ==
  /\ workers[w].cancel
  /\ \/ /\ workers[w].pc = "get"
        /\ UNCHANGED <<jobs, ended>>
     \/ /\ workers[w].pc = "await"
        /\ tasks[workers[w].job][workers[w].pos].pc # "cancelling"
        /\ \A k \in 1..Len(tasks[workers[w].job]) : tasks[workers[w].job][k].pc # "new"
        /\ jobs' = Put(jobs, workers[w].job, Unwind(jobs[workers[w].job]))
        /\ ended' = Put(ended, workers[w].job, "cancelled")
  /\ workers' = [workers EXCEPT ![w] = [pc |-> "dead", job |-> 0, pos |-> 0, cancel |-> FALSE]]
  /\ lastCall' = NoCall
  /\ UNCHANGED <<polls, traffic_log, max_workers, per_job_concurrency, store, queue, running,
                 lifecycle, tasks, results, canceledAt>>

\* Mutant of StopReturn: stop returns after cancelling the workers, without
\* waiting for them to end.
StopReturn_NoGather ==
  /\ lifecycle = "stopping"
  /\ lifecycle' = "stopped"
  /\ lastCall' = NoCall
  /\ UNCHANGED <<polls, traffic_log, max_workers, per_job_concurrency, jobs, store, queue, running,
                 workers, tasks, results, ended, canceledAt>>

\* stop, jobs.py:64-65: gather returns once every worker task has ended;
\* clearing the list self._workers changes nothing for the tasks.
StopReturn ==
  /\ lifecycle = "stopping"
  /\ \A w \in WorkerIds : workers[w].pc \in {"off", "dead"}
  /\ lifecycle' = "stopped"
  /\ lastCall' = NoCall
  /\ UNCHANGED <<polls, traffic_log, max_workers, per_job_concurrency, jobs, store, queue, running,
                 workers, tasks, results, ended, canceledAt>>

\* ----------------------------------------------- status endpoint (main.py)

\* get_job, main.py:186-200: one TrafficLog row for each entry of
\* result.locations, which is the list of the locations that succeeded
\* (jobs.py:205); row i takes lat/lng from payload.locations[i] and the
\* analysis from result.locations[i].
LogRows(job) ==
  [i \in 1..Min(Len(job.locs), job.nloc) |-> [payload |-> i, result |-> job.locs[i]]]

\* get_job, main.py:140-181, from the request to its first suspension.  A
\* Pending or Running job is reported and an unknown id is looked up in
\* the database; a Failed job, or one already logged, is removed from the
\* queue; a Done or Canceled job not yet logged makes the handler wait for
\* db.execute (result is a non-empty dict, so job.get("result") is true).
PollBegin(p, job_id) ==
  /\ polls[p].pc = "idle"
  /\ IF Found(job_id) \in {"absent", PENDING, RUNNING}
       THEN UNCHANGED <<polls, store>>
       ELSE IF Found(job_id) = FAILED \/ jobs[job_id].logged_to_db
         THEN /\ store' = store \ {job_id}
              /\ UNCHANGED polls
         ELSE /\ polls' = [polls EXCEPT ![p] = [pc |-> "select", job |-> job_id, rows |-> <<>>]]
              /\ UNCHANGED store
  /\ lastCall' = [op |-> "get", id |-> job_id, was |-> Found(job_id),
                out |-> "returned"]
  /\ UNCHANGED <<traffic_log, max_workers, per_job_concurrency, jobs, queue, running,
                 lifecycle, workers, tasks, results, ended, canceledAt>>

\* get_job, main.py:182-201: the Job row has been read; the handler adds
\* the rows to its session and waits for db.commit.
PollSelected(p) ==
  /\ polls[p].pc = "select"
  /\ polls' = [polls EXCEPT ![p].pc = "commit", ![p].rows = LogRows(jobs[polls[p].job])]
  /\ lastCall' = NoCall
  /\ UNCHANGED <<traffic_log, max_workers, per_job_concurrency, jobs, store, queue,
                 running, lifecycle, workers, tasks, results, ended, canceledAt>>

\* get_job, main.py:201-207: the commit is done; the latch is set and the
\* job is removed from the queue.
PollCommitted(p) ==
  /\ polls[p].pc = "commit"
  /\ traffic_log' = [traffic_log EXCEPT ![polls[p].job] = @ \o polls[p].rows]
  /\ jobs' = Put(jobs, polls[p].job, [jobs[polls[p].job] EXCEPT !.logged_to_db = TRUE])
  /\ store' = store \ {polls[p].job}
  /\ polls' = [polls EXCEPT ![p] = Idle]
  /\ lastCall' = NoCall
  /\ UNCHANGED <<max_workers, per_job_concurrency, queue, running, lifecycle,
                 workers, tasks, results, ended, canceledAt>>

\* ----------------------------------------------- cancel endpoint (main.py)

\* What job_queue.cancel(job_uid) hands back (jobs.py:99-114): the record,
\* a dict, or None.  cancel is a plain function, so the call yields the
\* value itself and no coroutine.
CancelReturns(job_id) == IF job_id \in store THEN "dict" ELSE "None"

\* What an await expression accepts.
Awaitable == {"coroutine", "task", "future"}

\* cancel_job, main.py:223-244: how the request ends.  Awaiting a value
\* that is not awaitable raises TypeError, which nothing in the handler
\* catches.
CancelJobOutcome(job_id) ==
  IF CancelReturns(job_id) \notin Awaitable THEN "internal_error"
  ELSE IF Found(job_id) = "absent" THEN "not_found"
  ELSE "response"

\* cancel_job, main.py:219-244: job_queue.cancel(job_uid) is evaluated
\* first and changes the record, then its value is awaited.
CancelJob(job_id) ==
  /\ IF job_id \in store
       THEN /\ jobs' = Put(jobs, job_id, CancelRecord(jobs[job_id]))
            /\ canceledAt' =
                 IF jobs'[job_id].cancel_requested /\ ~jobs[job_id].cancel_requested
                   THEN Put(canceledAt, job_id, jobs[job_id].status)
                   ELSE canceledAt
       ELSE UNCHANGED <<jobs, canceledAt>>
  /\ lastCall' = [op |-> "cancel_job", id |-> job_id, was |-> Found(job_id),
                  out |-> CancelJobOutcome(job_id)]
  /\ UNCHANGED <<polls, traffic_log, max_workers, per_job_concurrency, store, queue, running,
                 lifecycle, workers, tasks, results, ended>>

\* ------------------------------------------------------- specification

LocIds == 1..Min(MaxLocs, LocationCap)

\* The payloads submitted: a location list of any length up to MaxLocs, or
\* a payload whose "locations" entry is not a sequence (submit validates
\* nothing, jobs.py:67-89).
Payloads ==
  {[nloc |-> n, bad |-> FALSE] : n \in 0..MaxLocs} \cup {[nloc |-> 0, bad |-> TRUE]}

Next ==
  \/ Start
  \/ \E payload \in Payloads : Submit(payload)
  \/ \E job_id \in JobIds : Cancel(job_id)
  \/ \E job_id \in JobIds : Remove(job_id)
  \/ \E w \in WorkerIds : Dequeue(w)
  \/ \E w \in WorkerIds : ProcessJob(w)
  \/ \E w \in WorkerIds : Collect(w)
  \/ \E j \in JobIds, i \in LocIds : TaskStart(j, i)
  \/ \E j \in JobIds, i \in LocIds : TaskWake(j, i)
  \/ \E j \in JobIds, i \in LocIds : TaskReturn(j, i)
  \/ \E j \in JobIds, i \in LocIds : TaskRaise(j, i)

\* The queue between start() and stop(): every interleaving of the facade
\* calls with the steps of the workers and of the location tasks.
Spec == Init /\ [][Next]_vars

\* A single job with a longer location list: submit is called once.
PayloadsOneJob ==
  {[nloc |-> n, bad |-> FALSE] : n \in 0..MaxLocsOneJob} \cup {[nloc |-> 0, bad |-> TRUE]}

LocIdsOneJob == 1..Min(MaxLocsOneJob, LocationCap)

NextOneJob ==
  \/ Start
  \/ \E payload \in PayloadsOneJob : jobs = <<>> /\ Submit(payload)
  \/ \E job_id \in JobIds : Cancel(job_id)
  \/ \E job_id \in JobIds : Remove(job_id)
  \/ \E w \in WorkerIds : Dequeue(w)
  \/ \E w \in WorkerIds : ProcessJob(w)
  \/ \E w \in WorkerIds : Collect(w)
  \/ \E j \in JobIds, i \in LocIdsOneJob : TaskStart(j, i)
  \/ \E j \in JobIds, i \in LocIdsOneJob : TaskWake(j, i)
  \/ \E j \in JobIds, i \in LocIdsOneJob : TaskReturn(j, i)
  \/ \E j \in JobIds, i \in LocIdsOneJob : TaskRaise(j, i)

SpecOneJob == Init /\ [][NextOneJob]_vars

\* The admission queue with its timeout: the 1-second timeout of the
\* dequeue may fire at any time.
NextQueue ==
  \/ Next
  \/ \E w \in WorkerIds : Timeout(w)
  \/ \E w \in WorkerIds : Retry(w)

SpecQueue == Init /\ [][NextQueue]_vars

\* The same with shutdown: stop() may be called at any time after start().
NextStop ==
  \/ Next
  \/ StopBegin
  \/ \E j \in JobIds, i \in LocIds : TaskCancelled(j, i)
  \/ \E w \in WorkerIds : WorkerCancelled(w)
  \/ StopReturn

SpecStop == Init /\ [][NextStop]_vars

\* A single job and shutdown: submit is called once, before or after
\* stop(), and stop() may be called at any time after start().
PayloadsStop ==
  {[nloc |-> n, bad |-> FALSE] : n \in 0..MaxLocsStop} \cup {[nloc |-> 0, bad |-> TRUE]}

LocIdsStop == 1..Min(MaxLocsStop, LocationCap)

NextStopOneJob ==
  \/ Start
  \/ \E payload \in PayloadsStop : jobs = <<>> /\ Submit(payload)
  \/ \E job_id \in JobIds : Cancel(job_id)
  \/ \E job_id \in JobIds : Remove(job_id)
  \/ \E w \in WorkerIds : Dequeue(w)
  \/ \E w \in WorkerIds : ProcessJob(w)
  \/ \E w \in WorkerIds : Collect(w)
  \/ \E j \in JobIds, i \in LocIdsStop : TaskStart(j, i)
  \/ \E j \in JobIds, i \in LocIdsStop : TaskWake(j, i)
  \/ \E j \in JobIds, i \in LocIdsStop : TaskReturn(j, i)
  \/ \E j \in JobIds, i \in LocIdsStop : TaskRaise(j, i)
  \/ StopBegin
  \/ \E j \in JobIds, i \in LocIdsStop : TaskCancelled(j, i)
  \/ \E w \in WorkerIds : WorkerCancelled(w)
  \/ StopReturn

SpecStopOneJob == Init /\ [][NextStopOneJob]_vars

\* A single job and the status endpoint: any number of requests up to
\* MaxPollers may be in flight at once, for any id.
PayloadsPoll ==
  {[nloc |-> n, bad |-> FALSE] : n \in 0..MaxLocsPoll} \cup {[nloc |-> 0, bad |-> TRUE]}

LocIdsPoll == 1..Min(MaxLocsPoll, LocationCap)

NextPoll ==
  \/ Start
  \/ \E payload \in PayloadsPoll : jobs = <<>> /\ Submit(payload)
  \/ \E job_id \in JobIds : Cancel(job_id)
  \/ \E w \in WorkerIds : Dequeue(w)
  \/ \E w \in WorkerIds : ProcessJob(w)
  \/ \E w \in WorkerIds : Collect(w)
  \/ \E j \in JobIds, i \in LocIdsPoll : TaskStart(j, i)
  \/ \E j \in JobIds, i \in LocIdsPoll : TaskWake(j, i)
  \/ \E j \in JobIds, i \in LocIdsPoll : TaskReturn(j, i)
  \/ \E j \in JobIds, i \in LocIdsPoll : TaskRaise(j, i)
  \/ \E p \in PollerIds, job_id \in JobIds : PollBegin(p, job_id)
  \/ \E p \in PollerIds : PollSelected(p)
  \/ \E p \in PollerIds : PollCommitted(p)

SpecPoll == Init /\ [][NextPoll]_vars

\* A single job whose payload reaches or exceeds the cap of 20 locations,
\* submitted to the queue directly (analyze_batch, main.py:92-93, would
\* refuse it).  The executor raises for the first locations of the list, any
\* number of them, and returns for the others: a call raises only when the
\* calls of all the locations before it have raised.
PayloadsCap == {[nloc |-> n, bad |-> FALSE] : n \in LocationCap..(LocationCap + MaxOver)}

LocIdsCap == 1..(LocationCap + MaxOver)

NextCap ==
  \/ Start
  \/ \E payload \in PayloadsCap : jobs = <<>> /\ Submit(payload)
  \/ \E w \in WorkerIds : Dequeue(w)
  \/ \E w \in WorkerIds : ProcessJob(w)
  \/ \E w \in WorkerIds : Collect(w)
  \/ \E j \in JobIds, i \in LocIdsCap : TaskStart(j, i)
  \/ \E j \in JobIds, i \in LocIdsCap : TaskWake(j, i)
  \/ \E j \in JobIds, i \in LocIdsCap : TaskReturn(j, i)
  \/ \E j \in JobIds, i \in LocIdsCap :
       TaskRaise(j, i) /\ \A k \in 1..(i - 1) : tasks[j][k].res = "err"

SpecCap == Init /\ [][NextCap]_vars

\* A single job and the two endpoints that act on it: status polls and
\* cancel requests for any id, at any time.
NextApi ==
  \/ NextPoll
  \/ \E job_id \in JobIds : CancelJob(job_id)

SpecApi == Init /\ [][NextApi]_vars

\* The event loop runs every coroutine that is ready, start() is called at
\* process init (async_worker.py:78), and every executor call returns or
\* raises.
Fairness ==
  /\ WF_vars(Start)
  /\ \A w \in WorkerIds :
       WF_vars(Dequeue(w)) /\ WF_vars(ProcessJob(w)) /\ WF_vars(Collect(w))
  /\ \A j \in JobIds, i \in LocIds :
       /\ WF_vars(TaskStart(j, i))
       /\ WF_vars(TaskWake(j, i))
       /\ WF_vars(TaskReturn(j, i) \/ TaskRaise(j, i))

FairSpec == Spec /\ Fairness

\* ================================================================ claims

Submitted == 1..Len(jobs)

N(j) == Locations(jobs[j])

\* C1: a job's status only moves forward along Pending -> Running ->
\* {Done, Failed, Canceled}: a terminal status never changes again and no
\* status goes back to Pending.
C1_StatusOnlyForward ==
  [][\A j \in Submitted :
       /\ jobs[j].status \in Terminal => jobs'[j].status = jobs[j].status
       /\ jobs[j].status = RUNNING => jobs'[j].status # PENDING]_vars

\* C2: once cancel has been applied to a job (cancel_requested set), the
\* controller never sets its status to Done or Failed, whatever the order
\* in which its remaining location tasks finish.
C2_CanceledNeverDoneOrFailed ==
  \A j \in Submitted : jobs[j].cancel_requested => jobs[j].status \notin {DONE, FAILED}

\* The call for a job canceled while Running has returned after all its
\* location tasks finished, one of them with a result.
C2_Witness ==
  \E j \in Submitted :
    /\ canceledAt[j] = RUNNING
    /\ ended[j] = "returned"
    /\ Len(tasks[j]) >= 2
    /\ \A i \in 1..Len(tasks[j]) : tasks[j][i].pc = "done"
    /\ \E i \in 1..Len(tasks[j]) : tasks[j][i].res = "ok"

\* C3: at every instant the number of job records whose status is Running
\* is at most max_workers.  Only records with a well-formed payload are
\* counted, so that a violation does not rest on a malformed submission.
C3_RunningAtMostWorkers ==
  Cardinality({j \in store : jobs[j].status = RUNNING /\ ~jobs[j].bad}) <= max_workers

\* C4: for a single job, the number of its location tasks inside the
\* executor call is at most per_job_concurrency at every instant, also
\* after the job has been canceled.
C4_ExecutorCallsBounded ==
  \A j \in Submitted : Cardinality(InExecutor(tasks[j])) <= per_job_concurrency

\* A canceled job whose worker has left it and whose gate is full while
\* another of its tasks waits.
C4_Witness ==
  \E j \in Submitted :
    /\ jobs[j].cancel_requested
    /\ ended[j] = "returned"
    /\ Cardinality(InExecutor(tasks[j])) = per_job_concurrency
    /\ Waiters(tasks[j]) # {}

\* Locations of job j whose task has called the executor.
Invoked(j) ==
  {i \in 1..Len(tasks[j]) : tasks[j][i].pc = "exec" \/ tasks[j][i].res # "none"}

Succeeded(j) == {i \in 1..Len(tasks[j]) : tasks[j][i].res = "ok"}

Raised(j) == {i \in 1..Len(tasks[j]) : tasks[j][i].res = "err"}

\* C5: a job with N locations that is never canceled and in which at least
\* one location succeeds, or N = 0, ends Done with completed = N and
\* result.count = N - failure; and no job is Done before that.
C5_DoneOnAnySuccess ==
  \A j \in Submitted :
    /\ (/\ ended[j] = "returned"
        /\ ~jobs[j].cancel_requested
        /\ (N(j) = 0 \/ Succeeded(j) # {}))
       => /\ jobs[j].status = DONE
          /\ jobs[j].completed = N(j)
          /\ jobs[j].count = N(j) - jobs[j].failure
          /\ jobs[j].count = Cardinality(Succeeded(j))
    /\ jobs[j].status = DONE
       => /\ ended[j] = "returned"
          /\ jobs[j].completed = N(j)
          /\ jobs[j].count = N(j) - jobs[j].failure

\* A job of three locations, of which the second raised and the others
\* succeeded, has ended Done.
C5_Witness ==
  \E j \in Submitted :
    /\ jobs[j].status = DONE
    /\ N(j) = 3
    /\ Succeeded(j) = {1, 3} /\ Raised(j) = {2}

\* C6: a job with N >= 1 locations that is never canceled and in which
\* every executor call raises ends Failed with an error, result.count = 0
\* and completed = N; and Failed is reached in that case only.
C6_FailedIffAllRaise ==
  \A j \in Submitted :
    /\ (/\ ended[j] = "returned"
        /\ ~jobs[j].cancel_requested
        /\ N(j) >= 1
        /\ Raised(j) = 1..N(j))
       => /\ jobs[j].status = FAILED
          /\ jobs[j].error.kind # "none"
          /\ jobs[j].count = 0
          /\ jobs[j].completed = N(j)
    /\ jobs[j].status = FAILED
       => /\ N(j) >= 1
          /\ Raised(j) = 1..N(j)
          /\ ~jobs[j].cancel_requested
          /\ ended[j] = "returned"

\* A job of two locations, both raised, has ended Failed.
C6_Witness ==
  \E j \in Submitted :
    /\ jobs[j].status = FAILED
    /\ N(j) = 2
    /\ Raised(j) = {1, 2}

\* C7: cancel on a job whose status is Done, Failed or Canceled leaves every
\* field of its record, and every other record, unchanged.
C7_CancelTerminalNoChange ==
  [][\A job_id \in JobIds :
       (Found(job_id) \in Terminal /\ Cancel(job_id))
         => (jobs' = jobs /\ store' = store /\ canceledAt' = canceledAt)]_vars

\* cancel has just returned for a job it found Done, with results.
C7_Witness ==
  /\ lastCall.op = "cancel"
  /\ lastCall.was = DONE
  /\ jobs[lastCall.id].status = DONE
  /\ jobs[lastCall.id].count >= 1

\* C8: cancel on a Pending or Running job sets cancel_requested and status
\* Canceled in one step, so a get right after cancel sees Canceled; and
\* cancel_requested, once true, is never false again.
C8_CancelImmediateAndLatched ==
  /\ [](lastCall.op = "cancel" /\ lastCall.was \in {PENDING, RUNNING}
          => /\ Found(lastCall.id) = CANCELED
             /\ jobs[lastCall.id].cancel_requested)
  /\ [][\A j \in Submitted :
          jobs[j].cancel_requested => jobs'[j].cancel_requested]_vars

\* cancel has just returned for a job it found Running, whose tasks are
\* still in the executor.
C8_Witness ==
  /\ lastCall.op = "cancel"
  /\ lastCall.was = RUNNING
  /\ InExecutor(tasks[lastCall.id]) # {}

\* C9: if cancel is applied to a job before a worker has claimed it, the
\* executor is never invoked for any of its locations and its completed
\* counter stays 0.
C9_CanceledPendingNeverExecutes ==
  \A j \in Submitted :
    canceledAt[j] = PENDING
      => /\ Invoked(j) = {}
         /\ jobs[j].completed = 0

\* A job with locations, canceled while Pending, has since been dequeued
\* and processed.
C9_Witness ==
  \E j \in Submitted :
    /\ canceledAt[j] = PENDING
    /\ N(j) >= 1
    /\ ended[j] = "returned"

\* C10: every non-canceled job eventually reaches Done or Failed and never
\* stays Running forever.  Once _process_job has ended for a job nothing
\* but cancel writes its status, so the claim requires a job that was never
\* canceled to be Done or Failed when the call ends.
C10_ProcessedJobIsTerminal ==
  \A j \in Submitted :
    (ended[j] \in {"returned", "raised"} /\ ~jobs[j].cancel_requested)
      => jobs[j].status \in {DONE, FAILED}

\* What is left of C10 for well-formed payloads, under FairSpec: a job in
\* the store that is not canceled reaches Done or Failed.
C10_WellFormedJobsFinish ==
  \A j \in JobIds :
    (j \in Submitted /\ ~jobs[j].bad)
      ~> (j \in Submitted /\ (\/ jobs[j].status \in {DONE, FAILED}
                               \/ jobs[j].cancel_requested
                               \/ j \notin store))

\* How many times job id j stands in the admission queue.
Queued(j) == Cardinality({k \in 1..Len(queue) : queue[k] = j})

\* The workers that hold job id j: queue.get() has delivered it to them and
\* their call of _process_job for it has not ended.
Owners(j) == {w \in WorkerIds : workers[w].pc \in {"got", "await"} /\ workers[w].job = j}

\* C11: each submitted job id is put on the admission queue exactly once
\* and dequeued by at most one worker: at every instant the id is either
\* once in the queue, or held by exactly one worker, or its processing is
\* over; so never two workers are inside _process_job for the same id and
\* no id leaves the queue without a worker, also when the dequeue times out.
C11_EnqueuedOnceOwnedOnce ==
  \A j \in Submitted :
    /\ Queued(j) + Cardinality(Owners(j)) + (IF ended[j] = "no" THEN 0 ELSE 1) = 1
    /\ Cardinality(Owners(j)) <= 1

\* Two ids wait in the queue while one worker has timed out on its dequeue
\* and another is about to take the first id.
C11_Witness ==
  /\ Len(queue) = 2
  /\ \E w1, w2 \in WorkerIds :
       /\ workers[w1].pc = "timedout"
       /\ workers[w2].pc = "get"

\* C12: jobs are claimed in submission order (ids are numbered in the order
\* of the submit calls): a job is not dequeued while a job submitted before
\* it still waits in the queue.
C12_DequeuedInSubmissionOrder ==
  /\ \A a, b \in Submitted : (a < b /\ Queued(a) > 0) => Queued(b) > 0
  /\ \A k \in 1..(Len(queue) - 1) : queue[k] < queue[k + 1]

\* Both jobs waited in the queue together; the first has been handed to a
\* worker and the second is next, with another worker free to take it.
C12_Witness ==
  /\ queue = <<2>>
  /\ \E w1, w2 \in WorkerIds :
       /\ workers[w1].pc = "got" /\ workers[w1].job = 1
       /\ workers[w2].pc = "get"
  /\ jobs[2].updated_at = 0 /\ jobs[1].updated_at = 0

C14_RemovedStaysAbsent ==
  /\ [](lastCall.op = "remove" => Found(lastCall.id) = "absent")
  /\ [][\A j \in Submitted : j \notin store => j \notin store']_vars

\* remove has just returned for a Running job whose worker is inside
\* _process_job, waiting for a location task that is in the executor.
C14_Witness ==
  /\ lastCall.op = "remove"
  /\ lastCall.was = RUNNING
  /\ \E w \in WorkerIds :
       /\ workers[w].pc = "await"
       /\ workers[w].job = lastCall.id
       /\ InExecutor(tasks[lastCall.id]) # {}

\* C15: get, cancel and remove on an unknown or already-removed id signal
\* absence and do not raise: they can be called in every state, and cancel
\* and remove then leave the store, the queue and every record unchanged;
\* so a second remove of an id has no effect (get is the read Found).
C15_AbsentIdIsNoOp ==
  /\ [](\A job_id \in JobIds : ENABLED Cancel(job_id) /\ ENABLED Remove(job_id))
  /\ [][\A job_id \in JobIds :
          (Found(job_id) = "absent" /\ (Cancel(job_id) \/ Remove(job_id)))
            => /\ jobs' = jobs /\ store' = store /\ queue' = queue
               /\ workers' = workers /\ tasks' = tasks
               /\ lastCall'.was = "absent"]_vars

\* A second call on an id already removed has just returned, while the
\* worker of that job is still inside _process_job.
C15_Witness ==
  /\ lastCall.op \in {"cancel", "remove"}
  /\ lastCall.was = "absent"
  /\ lastCall.id \in Submitted
  /\ \E w \in WorkerIds : workers[w].pc = "await" /\ workers[w].job = lastCall.id

\* Locations of job j for which the executor has not been called yet.
NotStarted(j) == (1..N(j)) \ Invoked(j)

\* Locations of job j whose task has not finished, or does not exist yet.
NotFinished(j) ==
  {i \in 1..N(j) : i > Len(tasks[j]) \/ tasks[j][i].pc # "done"}

\* C16, as stated: until a job reaches a terminal state, completed + (number
\* of its locations not yet started) = number of its locations; and in a
\* terminal state reached without cancellation completed = that number.
C16_CompletedPlusNotStarted ==
  \A j \in Submitted :
    ~jobs[j].bad
      => /\ jobs[j].status \in {PENDING, RUNNING}
              => jobs[j].completed + Cardinality(NotStarted(j)) = N(j)
         /\ jobs[j].status \in {DONE, FAILED} => jobs[j].completed = N(j)

\* C16, amended: completed counts the locations the controller has
\* collected, in list order, and each of them has finished; locations that
\* are started but not collected are in neither term, so until a terminal
\* state completed + (locations not yet finished) <= number of locations,
\* and completed = that number in a terminal state reached without
\* cancellation.
C16_CompletedCountsCollected ==
  \A j \in Submitted :
    ~jobs[j].bad
      => /\ jobs[j].status \in {PENDING, RUNNING}
              => /\ jobs[j].completed + Cardinality(NotFinished(j)) <= N(j)
                 /\ \A i \in 1..jobs[j].completed :
                      i <= Len(tasks[j]) /\ tasks[j][i].pc = "done"
         /\ jobs[j].status \in {DONE, FAILED} => jobs[j].completed = N(j)

\* A Running job of three locations: the first and the third are in the
\* executor, the second has finished and is not counted yet.
C16_Witness ==
  \E j \in Submitted :
    /\ jobs[j].status = RUNNING
    /\ N(j) = 3 /\ Len(tasks[j]) = 3
    /\ tasks[j][1].pc = "exec" /\ tasks[j][2].pc = "done" /\ tasks[j][3].pc = "exec"
    /\ jobs[j].completed = 0

\* C17: completed and failure never decrease, each is incremented at most
\* once per location, 0 <= failure <= N and 0 <= completed <= N in every
\* state, and no increment is lost when location tasks finish concurrently:
\* failure is exactly the number of locations whose call raised.
C17_CountersMonotoneBounded ==
  /\ [](\A j \in Submitted :
          /\ 0 <= jobs[j].failure /\ jobs[j].failure <= N(j)
          /\ 0 <= jobs[j].completed /\ jobs[j].completed <= N(j)
          /\ jobs[j].failure = Cardinality(Raised(j))
          /\ jobs[j].completed <= Len(tasks[j]))
  /\ [][\A j \in Submitted :
          /\ jobs'[j].completed >= jobs[j].completed
          /\ jobs'[j].failure >= jobs[j].failure]_vars

\* Two location tasks that ran in the executor at the same time have both
\* raised before the controller has collected any.
C17_Witness ==
  \E j \in Submitted :
    /\ per_job_concurrency >= 2
    /\ jobs[j].failure = 2
    /\ jobs[j].completed = 0
    /\ Raised(j) = {1, 2}

\* C18: in every reachable state and for every job record, result.count
\* is the length of result.locations.
C18_CountIsLengthOfLocations ==
  \A j \in Submitted : jobs[j].count = Len(jobs[j].locs)

\* A job has ended Done with a result for some of its locations and a
\* failure for another, so result.locations is shorter than the payload.
C18_Witness ==
  \E j \in Submitted :
    /\ jobs[j].status = DONE
    /\ jobs[j].failure >= 1
    /\ Len(jobs[j].locs) >= 2

\* C19: when stop() returns no job-worker task is alive, and after that
\* point no job moves from Pending to Running.
C19_StopLeavesNoWorker ==
  /\ [](lifecycle = "stopped" => \A w \in WorkerIds : workers[w].pc \in {"off", "dead"})
  /\ [][lifecycle = "stopped"
          => \A j \in Submitted :
               ~(jobs[j].status = PENDING /\ jobs'[j].status = RUNNING)]_vars

\* stop() has returned with two workers ended while a Pending job waits in
\* the queue.
C19_Witness ==
  /\ lifecycle = "stopped"
  /\ max_workers = 2
  /\ \A w \in 1..max_workers : workers[w].pc = "dead"
  /\ \E j \in Submitted : jobs[j].status = PENDING /\ Queued(j) = 1 /\ j \in store

\* C20: a worker survives any exception escaping _process_job: once the
\* processing of a job has raised, every started worker is still in its
\* loop, where it dequeues and processes the jobs submitted afterwards.
C20_WorkerSurvivesRaisingJob ==
  \A j \in Submitted :
    ended[j] = "raised"
      => \A w \in 1..max_workers : workers[w].pc \in {"get", "timedout", "got", "await"}

\* The only worker has processed a job whose payload made _process_job
\* raise, and then a second job, which is Done with a result.
C20_Witness ==
  /\ max_workers = 1
  /\ Len(jobs) = 2
  /\ ended[1] = "raised"
  /\ ended[2] = "returned"
  /\ jobs[2].status = DONE /\ jobs[2].count = 1

\* C21: the results of a job are written to the persistent log at most
\* once, for every interleaving of concurrent status polls: no TrafficLog
\* row of a job is committed twice.
C21_LoggedAtMostOnce ==
  \A j \in JobIds :
    \A a, b \in 1..Len(traffic_log[j]) :
      a # b => traffic_log[j][a] # traffic_log[j][b]

\* C22: a location task re-checks cancel_requested after it has acquired
\* the concurrency gate: a task that waits for the gate of a job whose
\* cancel_requested is set never goes on to call the executor.
C22_RecheckAfterGate ==
  [][\A j \in Submitted :
       \A i \in 1..Len(tasks[j]) :
         (jobs[j].cancel_requested /\ tasks[j][i].pc \in {"wait", "woken"})
           => tasks'[j][i].pc # "exec"]_vars

\* C23: after cancel_requested has been set on a Running job, its
\* completed and failure counters are not changed by location tasks that
\* finish later.
C23_CountersFrozenAfterCancel ==
  [][\A j \in Submitted :
       (jobs[j].cancel_requested /\ canceledAt[j] = RUNNING)
         => /\ jobs'[j].completed = jobs[j].completed
            /\ jobs'[j].failure = jobs[j].failure]_vars

\* C24: outputs of work units that finish after cancel was applied are
\* discarded: once cancel_requested is set, result.locations and
\* result.count of the job are never modified.
C24_ResultFrozenAfterCancel ==
  [][\A j \in Submitted :
       jobs[j].cancel_requested
         => /\ jobs'[j].locs = jobs[j].locs
            /\ jobs'[j].count = jobs[j].count]_vars

\* A job was canceled while Running; a location task has returned an
\* analysis all the same, the controller has collected it and the call has
\* ended, with an empty result.
C24_Witness ==
  \E j \in Submitted :
    /\ canceledAt[j] = RUNNING
    /\ ended[j] = "returned"
    /\ \E i \in 1..Len(results[j]) : results[j][i] = "ok"
    /\ jobs[j].count = 0 /\ jobs[j].locs = <<>>

\* C25: a failure of one location's executor call never aborts sibling
\* tasks or touches another job: in a job that is not canceled no task ends
\* without having called the executor, so when the call of _process_job is
\* over the executor has been invoked for every one of the N locations,
\* whichever of them raised; and the steps taken for one job (a raising
\* call, the worker's own steps) leave the record and the tasks of every
\* other job unchanged.
C25_FailureStaysLocal ==
  /\ [](\A j \in Submitted :
          (~jobs[j].cancel_requested /\ ~jobs[j].bad)
            => /\ \A i \in 1..Len(tasks[j]) :
                    tasks[j][i].pc = "done" => tasks[j][i].res # "none"
               /\ ended[j] = "returned" => Invoked(j) = 1..N(j))
  /\ [][\A j \in JobIds, i \in LocIds :
          TaskRaise(j, i)
            => \A b \in Submitted \ {j} : jobs'[b] = jobs[b] /\ tasks'[b] = tasks[b]]_vars
  /\ [][\A w \in WorkerIds :
          (ProcessJob(w) \/ Collect(w))
            => \A b \in Submitted \ {workers[w].job} :
                 jobs'[b] = jobs[b] /\ tasks'[b] = tasks[b]]_vars

\* Two jobs; in one of them, with the gate open to one task at a time, the
\* first location raised and the second was then run and succeeded.
C25_Witness ==
  /\ Len(jobs) = 2
  /\ per_job_concurrency = 1
  /\ \E j \in Submitted :
       /\ ended[j] = "returned"
       /\ Raised(j) = {1} /\ Succeeded(j) = {2}
       /\ jobs[j].status = DONE

\* C26: if a step of the controller's own bookkeeping raises after the job
\* has been set to Running (reading and truncating the payload's location
\* list included), the job still ends Failed or Done and does not remain
\* Running.
C26_BookkeepingErrorIsTerminal ==
  \A j \in Submitted :
    (ended[j] = "raised" /\ ~jobs[j].cancel_requested)
      => jobs[j].status \in {FAILED, DONE}

\* Location tasks of job j that have finished.
Finished(j) == {i \in 1..Len(tasks[j]) : tasks[j][i].pc = "done"}

\* C27: completed is incremented as each location task finishes, whatever
\* the order: while the job is Running and not canceled, completed equals
\* the number of its location tasks that have finished.  The instants
\* looked at are those where the controller is suspended on a task that
\* has not finished, so that it has counted all it could.
C27_CompletedCountsFinished ==
  \A w \in WorkerIds :
    (/\ workers[w].pc = "await"
     /\ jobs[workers[w].job].status = RUNNING
     /\ ~jobs[workers[w].job].cancel_requested
     /\ tasks[workers[w].job][workers[w].pos].pc # "done")
      => jobs[workers[w].job].completed = Cardinality(Finished(workers[w].job))

\* C28: results stream into the job record while the job is Running: a
\* poll sees result.count equal to the number of successes among the
\* locations counted in completed so far.  The instants looked at are
\* those where every location task of the job has started.
C28_ResultsStreamWhileRunning ==
  \A j \in Submitted :
    (/\ jobs[j].status = RUNNING /\ ~jobs[j].cancel_requested /\ ~jobs[j].bad
     /\ \A i \in 1..Len(tasks[j]) : tasks[j][i].pc # "new")
      => /\ jobs[j].count =
              Cardinality({i \in 1..jobs[j].completed : tasks[j][i].res = "ok"})
         /\ Len(jobs[j].locs) = jobs[j].count

\* C29: when a job ends Failed because all N >= 1 locations failed, its
\* error holds min(N, 3) failure messages, those of the first three
\* locations in submission order, and none of a later location.
C29_ErrorListsFirstThree ==
  \A j \in Submitted :
    jobs[j].status = FAILED
      => /\ jobs[j].error.kind = "all_failed"
         /\ jobs[j].error.msgs = [i \in 1..Min(N(j), ErrorCap) |-> i]

\* A job of four locations, all of which raised, has ended Failed.
C29_Witness ==
  \E j \in Submitted :
    /\ jobs[j].status = FAILED
    /\ N(j) = 4
    /\ Raised(j) = 1..4

\* C30: in every reachable state and for every job record, error is set
\* only if status is Failed: no Pending, Running, Done or Canceled record
\* carries an error.
C30_ErrorOnlyOnFailed ==
  \A j \in Submitted : jobs[j].error # NoError => jobs[j].status = FAILED

\* cancel has been called on a job that had ended Failed with its error.
C30_Witness ==
  /\ lastCall.op = "cancel"
  /\ lastCall.was = FAILED
  /\ jobs[lastCall.id].error # NoError

\* C31: of a payload with more than 20 locations submitted directly to the
\* queue, only the first 20 in submission order are ever passed to the
\* executor, and the terminal decision is made against those 20: the job
\* ends Failed exactly when all 20 failed, with completed = 20 and
\* result.count = 20 - failure, and result.locations holds the successes
\* among the first 20 in order.
C31_OnlyFirstTwentyProcessed ==
  \A j \in Submitted :
    /\ Len(tasks[j]) <= LocationCap
    /\ Invoked(j) \subseteq 1..LocationCap
    /\ jobs[j].completed <= LocationCap /\ jobs[j].failure <= LocationCap
    /\ ended[j] = "returned"
         => /\ Invoked(j) = 1..Min(jobs[j].nloc, LocationCap)
            /\ jobs[j].completed = Min(jobs[j].nloc, LocationCap)
            /\ jobs[j].status = (IF jobs[j].failure = Min(jobs[j].nloc, LocationCap)
                                   THEN FAILED ELSE DONE)
            /\ jobs[j].count = Min(jobs[j].nloc, LocationCap) - jobs[j].failure
            /\ jobs[j].locs = Pick([i \in 1..LocationCap |-> tasks[j][i].res], "ok", 1)

\* A job of 21 locations has ended Failed: the executor raised for each of
\* the first 20 and was never called for the last.
C31_Witness ==
  \E j \in Submitted :
    /\ jobs[j].nloc = LocationCap + 1
    /\ ended[j] = "returned"
    /\ jobs[j].status = FAILED
    /\ jobs[j].failure = LocationCap /\ jobs[j].completed = LocationCap
    /\ Raised(j) = 1..LocationCap

\* C32: updated_at is refreshed by every step that changes a job's status,
\* completed or failure: a step that changes one of the three also gives
\* updated_at a new value.
C32_UpdatedAtFollowsChanges ==
  [][\A j \in Submitted :
       (\/ jobs'[j].status # jobs[j].status
        \/ jobs'[j].completed # jobs[j].completed
        \/ jobs'[j].failure # jobs[j].failure)
         => jobs'[j].updated_at # jobs[j].updated_at]_vars

RECURSIVE InExecutorUpTo(_)
\* Location tasks inside the executor call, summed over jobs 1..j.
InExecutorUpTo(j) ==
  IF j = 0 THEN 0 ELSE Cardinality(InExecutor(tasks[j])) + InExecutorUpTo(j - 1)

\* C33: system-wide, at every instant the number of location tasks inside
\* the executor call, summed over all jobs, is at most max_workers *
\* per_job_concurrency, and at most max_workers distinct jobs have location
\* tasks inside the executor, for any interleaving of submit and cancel
\* with worker steps.
C33_ExecutorCallsBoundedSystemWide ==
  /\ InExecutorUpTo(Len(tasks)) <= max_workers * per_job_concurrency
  /\ Cardinality({j \in Submitted : InExecutor(tasks[j]) # {}}) <= max_workers

\* C34: when stop() returns, no location task spawned by any job is still
\* alive: after stop() no executor call is in progress and none begins
\* later.
C34_StopLeavesNoLocationTask ==
  lifecycle = "stopped"
    => \A j \in Submitted :
         \A i \in 1..Len(tasks[j]) : tasks[j][i].pc \in {"done", "cancelled"}

\* A job removed from the store while it was still Pending.
RemovedPending(j) == j \notin store /\ jobs[j].status = PENDING

\* C35: a job removed from the store while it is still Pending is never
\* processed: it stays Pending and out of the store, no location task is
\* created and no executor call is made for it, and the worker that
\* dequeues its id changes no record and goes back to the queue for the
\* next id.
C35_RemovedPendingNeverProcessed ==
  /\ [](\A j \in Submitted :
          RemovedPending(j)
            => tasks[j] = <<>> /\ Invoked(j) = {} /\ ended[j] \in {"no", "absent"})
  /\ [][\A j \in Submitted : RemovedPending(j) => RemovedPending(j)']_vars
  /\ [][\A w \in WorkerIds :
          (workers[w].pc = "got" /\ workers'[w] # workers[w]
             /\ RemovedPending(workers[w].job))
            => /\ workers'[w] = [pc |-> "get", job |-> 0, pos |-> 0, cancel |-> FALSE]
               /\ jobs' = jobs /\ store' = store /\ tasks' = tasks]_vars

\* The only worker has dequeued the id of a job that was removed while
\* Pending, and then the id submitted after it, whose job is Done with a
\* result.
C35_Witness ==
  /\ max_workers = 1
  /\ Len(jobs) = 2
  /\ RemovedPending(1) /\ ended[1] = "absent" /\ jobs[1].nloc >= 1
  /\ ended[2] = "returned" /\ jobs[2].status = DONE /\ jobs[2].count >= 1

\* C36: when a Done job with partial failures is logged by the status
\* endpoint, every log row written for a successful result carries the
\* lat/lng of the location that produced that result.
C36_LogRowPairsResultWithItsLocation ==
  \A j \in JobIds :
    \A a \in 1..Len(traffic_log[j]) :
      traffic_log[j][a].payload = traffic_log[j][a].result

\* C37: the cancel endpoint returns a not-found outcome when the job id is
\* unknown to the queue, and for a known job a response carrying the job's
\* status after cancellation; it never ends in an internal error after
\* having already mutated the job record.
C37_CancelEndpointOutcome ==
  lastCall.op = "cancel_job"
    => /\ lastCall.was = "absent" => lastCall.out = "not_found"
       /\ lastCall.was # "absent" => lastCall.out = "response"
       /\ ~(lastCall.out = "internal_error" /\ lastCall.was \in {PENDING, RUNNING})

====
